---- MODULE Spec2Model ----
(***************************************************************************)
(* Model of src/agent.py: the markdown context loader (path resolver,      *)
(* single-document reader, collection reader, context assembler), the      *)
(* three loader tools registered with the agent, and the interactive main  *)
(* driver.                                                                  *)
(*                                                                          *)
(* Text is a sequence of tokens.  A token is a TLA+ string: file names are *)
(* spelled character by character (so that glob matching, sorting and      *)
(* basename work on them as the library functions do), fixed pieces of     *)
(* text such as headings are one token each.                               *)
(***************************************************************************)
EXTENDS Integers, Sequences, FiniteSets, TLC

VARIABLES
    fs,             \* the filesystem below PROJECT_ROOT (never written by the program)
    pc,             \* position of the process
    MARKDOWN_ROOT,  \* agent.py:31, set once at import
    guidelines,     \* preload_context_once local
    briefing,       \* preload_context_once local
    past_joined,    \* preload_context_once local
    caller,         \* who is running _load_past_newsletters_texts: "preload" or "tool"
    md_paths,       \* _load_past_newsletters_texts local: the sorted glob result
    idx,            \* _load_past_newsletters_texts: number of md_paths handled
    texts,          \* _load_past_newsletters_texts local
    ops,            \* filesystem calls made by the current preload / tool call, in order
    lastRead,       \* outcome of the latest _safe_read_text_file call
    lastColl,       \* outcome of the latest _load_past_newsletters_texts call
    initial_context,\* __main__ local
    sent,           \* every input handed to agent_executor.invoke, in order
    inputs,         \* every raw line returned by input(), in order
    toolCalls,      \* tool calls made by the agent during the current invoke
    crash           \* the exception that terminated the process, or NoException

vars == <<fs, pc, MARKDOWN_ROOT, guidelines, briefing, past_joined, caller, md_paths,
          idx, texts, ops, lastRead, lastColl, initial_context, sent, inputs,
          toolCalls, crash>>

----------------------------------------------------------------------------
(* Bounds of the model *)

\* at most this many entries in past_newsletter/ (loader specification)
MaxFiles == 3
\* at most this many entries in past_newsletter/ (whole-program specification)
MaxDriverFiles == 1
\* at most this many lines are read from the prompt
MaxTurns == 2
\* at most this many tool calls by the agent within one invoke
MaxToolCalls == 1

----------------------------------------------------------------------------
(* Text helpers *)

None == <<"<none>">>

RECURSIVE JoinWith(_, _)
\* str.join: sep.join(parts)
JoinWith(sep, parts) ==
    IF parts = <<>> THEN <<>>
    ELSE IF Len(parts) = 1 THEN parts[1]
    ELSE parts[1] \o sep \o JoinWith(sep, Tail(parts))

\* code points of the characters that occur in file names
CodePoint ==
    [c \in {"-", ".", "/", "0", "1", "2", "4", "B", "a", "d", "h", "m", "n", "t", "x"} |->
        CASE c = "-" -> 45 [] c = "." -> 46 [] c = "/" -> 47 [] c = "0" -> 48
          [] c = "1" -> 49 [] c = "2" -> 50 [] c = "4" -> 52 [] c = "B" -> 66
          [] c = "a" -> 97 [] c = "d" -> 100 [] c = "h" -> 104 [] c = "m" -> 109
          [] c = "n" -> 110 [] c = "t" -> 116 [] c = "x" -> 120]

RECURSIVE StrLess(_, _)
\* Python's str < str: lexicographic by code point, a proper prefix is smaller
StrLess(s, t) ==
    IF t = <<>> THEN FALSE
    ELSE IF s = <<>> THEN TRUE
    ELSE IF Head(s) = Head(t) THEN StrLess(Tail(s), Tail(t))
    ELSE CodePoint[Head(s)] < CodePoint[Head(t)]

RECURSIVE Descending(_)
\* a set of texts as a sequence, largest first
Descending(S) ==
    IF S = {} THEN <<>>
    ELSE LET mx == CHOOSE x \in S : \A y \in S \ {x} : StrLess(y, x)
         IN  <<mx>> \o Descending(S \ {mx})

RECURSIVE Sorted(_)
\* sorted(...) of the glob result (agent.py:56): ascending
Sorted(S) ==
    IF S = {} THEN <<>>
    ELSE LET mn == CHOOSE x \in S : \A y \in S \ {x} : StrLess(x, y)
         IN  <<mn>> \o Sorted(S \ {mn})

\* os.path.join(a, b) for a relative b
PathJoin(a, b) == a \o <<"/">> \o b

RECURSIVE Basename(_)
\* os.path.basename: what follows the last "/"
Basename(p) ==
    IF \E i \in 1..Len(p) : p[i] = "/"
    THEN Basename(SubSeq(p, (CHOOSE i \in 1..Len(p) : p[i] = "/") + 1, Len(p)))
    ELSE p

----------------------------------------------------------------------------
(* The filesystem *)

\* agent.py:16
PROJECT_ROOT == <<"<PROJECT_ROOT>">>

\* the candidate directory names of agent.py:20-23, in the order of the list
Candidates == <<"markdown-files", "mardown-files">>

NameDated  == <<"2", "0", "2", "4", "-", "0", "1", "-", "0", "1", ".", "m", "d">>
NameUpperB == <<"B", ".", "m", "d">>
NameA      == <<"a", ".", "m", "d">>
NameHidden == <<".", "h", ".", "m", "d">>
NameTxt    == <<"n", ".", "t", "x", "t">>

\* the names an entry of past_newsletter/ may have
Names == {NameDated, NameUpperB, NameA, NameHidden, NameTxt}

\* the contents a readable file of past_newsletter/ may have
Contents == {<<"Hello">>, <<>>}

\* the contents a readable named document may have
DocContents == {<<"Hello">>}

\* kinds of a name below the content root
\*   "absent"   nothing there
\*   "file"     a readable regular file
\*   "noperm"   a regular file whose open fails with PermissionError
\*   "dangling" a directory entry whose target is gone (a dangling link, or a
\*              file removed after the directory was listed)
\*   "dir"      a directory
\*   "dir_noperm" a directory that cannot be listed
DocKinds     == {"absent", "file", "noperm"}
EntryKinds   == {"file", "noperm", "dangling"}
DirKinds     == {"absent", "file", "dir"}
PastDirKinds == {"absent", "file", "dir", "dir_noperm"}

DocNodes   == {[kind |-> k, content |-> c] : k \in DocKinds, c \in DocContents \cup {<<>>}}
EntryNodes == {[kind |-> k, content |-> c] : k \in EntryKinds, c \in Contents}

\* a node carries content only when it is a readable file
WellFormedNode(n) == n.kind # "file" => n.content = <<>>

\* a named document: absent, unreadable, or readable with one of DocContents
WellFormedDoc(n) == n.kind = "file" <=> n.content \in DocContents

\* the whole-program specification draws the directory entries and the file
\* contents from these
DriverNames    == {NameA, NameTxt}
DriverContents == {<<"Hello">>}

\* the directories past_newsletter/ can be, with at most n entries named in
\* `names` and file contents in `contents`
Directories(names, contents, n) ==
    UNION {[D -> {e \in EntryNodes : WellFormedNode(e) /\ e.content \in contents \cup {<<>>}}] :
              D \in {X \in SUBSET names : Cardinality(X) <= n}}

\* Every candidate root that is a directory has the same layout below it:
\* the two named documents and past_newsletter/.
FileSystems(names, contents, n) ==
    {f \in [roots   : [{Candidates[1], Candidates[2]} -> DirKinds],
            eg      : {d \in DocNodes : WellFormedDoc(d)},
            br      : {d \in DocNodes : WellFormedDoc(d)},
            pdir    : PastDirKinds,
            entries : Directories(names, contents, n)] :
        /\ f.pdir # "dir" => f.entries = <<>>
        /\ (\A c \in DOMAIN f.roots : f.roots[c] # "dir") =>
              /\ f.eg.kind = "absent" /\ f.br.kind = "absent" /\ f.pdir = "absent"}

AbsentNode == [kind |-> "absent", content |-> <<>>]

\* what the path p names in filesystem f
Node(f, p) ==
    IF Len(p) < 3 \/ SubSeq(p, 1, 2) # PROJECT_ROOT \o <<"/">> THEN AbsentNode
    ELSE IF p[3] \notin DOMAIN f.roots THEN AbsentNode
    ELSE IF Len(p) = 3 THEN [kind |-> f.roots[p[3]], content |-> <<>>]
    ELSE IF f.roots[p[3]] # "dir" \/ Len(p) < 5 \/ p[4] # "/" THEN AbsentNode
    ELSE IF Len(p) = 5 THEN
        CASE p[5] = "Editorial Guidelines.md" -> f.eg
          [] p[5] = "Briefing.md"             -> f.br
          [] p[5] = "past_newsletter"         -> [kind |-> f.pdir, content |-> <<>>]
          [] OTHER                            -> AbsentNode
    ELSE IF p[5] # "past_newsletter" \/ f.pdir # "dir" \/ Len(p) < 7 \/ p[6] # "/"
         THEN AbsentNode
    ELSE IF SubSeq(p, 7, Len(p)) \in DOMAIN f.entries
         THEN f.entries[SubSeq(p, 7, Len(p))]
    ELSE AbsentNode

\* os.path.isdir
IsDir(f, p) == Node(f, p).kind \in {"dir", "dir_noperm"}

\* os.path.exists: follows links, so a dangling entry does not exist
Exists(f, p) == Node(f, p).kind \notin {"absent", "dangling"}

\* fnmatch of a base name against "*.md" as glob.glob applies it: names that
\* begin with "." are skipped because the pattern does not begin with "."
MatchesStarMd(name) ==
    /\ Len(name) >= 3
    /\ SubSeq(name, Len(name) - 2, Len(name)) = <<".", "m", "d">>
    /\ name[1] # "."

\* glob.glob(os.path.join(d, "*.md")): the directory listing filtered by the
\* pattern, in no particular order; dangling entries are listed, and a
\* directory that cannot be listed (or is none) gives nothing and no error
Glob(f, d) ==
    IF Node(f, d).kind # "dir" THEN {}
    ELSE {PathJoin(d, n) : n \in {m \in DOMAIN f.entries : MatchesStarMd(m)}}

----------------------------------------------------------------------------
(* Exceptions *)

NoException == [type |-> "none", msg |-> <<>>]

\* the classes each exception type is an instance of
ClassesOf(type) ==
    CASE type = "FileNotFoundError" -> {"FileNotFoundError", "OSError", "Exception", "BaseException"}
      [] type = "PermissionError"   -> {"PermissionError", "OSError", "Exception", "BaseException"}
      [] type = "KeyboardInterrupt" -> {"KeyboardInterrupt", "BaseException"}
      [] OTHER                      -> {}

IsInstance(exc, cls) == cls \in ClassesOf(exc.type)

\* the OSError that open() raises, with str(exc) as Python renders it
OpenError(f, p) ==
    IF Node(f, p).kind = "noperm"
    THEN [type |-> "PermissionError",
          msg  |-> <<"[Errno 13] Permission denied: '">> \o p \o <<"'">>]
    ELSE [type |-> "FileNotFoundError",
          msg  |-> <<"[Errno 2] No such file or directory: '">> \o p \o <<"'">>]

----------------------------------------------------------------------------
(* Path configuration, agent.py:16-34 *)

\* _resolve_markdown_root with the default taken from the end of the list
ResolveDefaultLast(f) ==
    LET cands == [i \in 1..Len(Candidates) |-> PathJoin(PROJECT_ROOT, <<Candidates[i]>>)]
    IN  IF \E i \in 1..Len(cands) : IsDir(f, cands[i])
        THEN cands[CHOOSE i \in 1..Len(cands) :
                     /\ IsDir(f, cands[i])
                     /\ \A j \in 1..(i - 1) : ~IsDir(f, cands[j])]
        ELSE cands[Len(cands)]

\* _resolve_markdown_root (agent.py:19-28): the first candidate that is a
\* directory, else the first candidate
_resolve_markdown_root(f) ==
    LET cands == [i \in 1..Len(Candidates) |-> PathJoin(PROJECT_ROOT, <<Candidates[i]>>)]
    IN  IF \E i \in 1..Len(cands) : IsDir(f, cands[i])
        THEN cands[CHOOSE i \in 1..Len(cands) :
                     /\ IsDir(f, cands[i])
                     /\ \A j \in 1..(i - 1) : ~IsDir(f, cands[j])]
        ELSE cands[1]

\* agent.py:32-34
EDITORIAL_GUIDELINES_PATH == PathJoin(MARKDOWN_ROOT, <<"Editorial Guidelines.md">>)
BRIEFING_PATH             == PathJoin(MARKDOWN_ROOT, <<"Briefing.md">>)
PAST_NEWSLETTERS_DIR      == PathJoin(MARKDOWN_ROOT, <<"past_newsletter">>)

----------------------------------------------------------------------------
(* _safe_read_text_file, agent.py:38-42 *)

\* a filesystem call, as logged in ops
Op(call, p) == [call |-> call, path |-> p]

\* the outcome of open(path).read(): the text, or the OSError of open()
OpenAndRead(f, p) ==
    IF Node(f, p).kind = "file"
    THEN [path |-> p, raised |-> FALSE, value |-> Node(f, p).content, exc |-> NoException,
          ops |-> <<Op("open", p)>>]
    ELSE [path |-> p, raised |-> TRUE, value |-> <<>>, exc |-> OpenError(f, p),
          ops |-> <<Op("open", p)>>]

\* _safe_read_text_file without the os.path.exists test
ReadWithoutExistsCheck(f, p) == OpenAndRead(f, p)

\* _safe_read_text_file(path): the outcome and the filesystem calls made
_safe_read_text_file(f, p) ==
    IF ~Exists(f, p)
    THEN [path |-> p, raised |-> TRUE, value |-> <<>>,
          exc  |-> [type |-> "FileNotFoundError", msg |-> <<"File not found: ">> \o p],
          ops  |-> <<Op("exists", p)>>]
    ELSE [OpenAndRead(f, p) EXCEPT !.ops = <<Op("exists", p)>> \o @]

NoRead == [path |-> <<>>, raised |-> FALSE, value |-> <<>>, exc |-> NoException, ops |-> <<>>]

----------------------------------------------------------------------------
(* _load_past_newsletters_texts, agent.py:53-66 *)

\* a handler that catches FileNotFoundError only
CatchesNotFoundOnly(exc) == IsInstance(exc, "FileNotFoundError")

\* a handler that catches every Exception but FileNotFoundError
CatchesAllButNotFound(exc) ==
    IsInstance(exc, "Exception") /\ ~IsInstance(exc, "FileNotFoundError")

\* "except Exception" of the per-file loop, agent.py:64
LoopCatches(exc) == IsInstance(exc, "Exception")

\* the block with the whole path in its heading
BlockWithPath(p, body) == <<"## ">> \o p \o <<"\n">> \o body

\* f"## {os.path.basename(path)}\n{body}", agent.py:63 and 65
Block(p, body) == <<"## ">> \o Basename(p) \o <<"\n">> \o body

\* agent.py:65
ErrorBody(exc) == <<"[Error reading file: ">> \o exc.msg \o <<"]">>

\* the directory test that never fails
NeverMissing(f, d) == FALSE

\* agent.py:54
DirectoryMissing(f, d) == ~IsDir(f, d)

NoColl == [done |-> FALSE, raised |-> FALSE, value |-> <<>>, exc |-> NoException]

CollReturned(v) == [done |-> TRUE, raised |-> FALSE, value |-> v, exc |-> NoException]
CollRaised(e)   == [done |-> TRUE, raised |-> TRUE, value |-> <<>>, exc |-> e]

\* agent.py:86 and 139
JoinedOrNone(ts) ==
    IF ts # <<>> THEN JoinWith(<<"\n\n">>, ts) ELSE <<"[No past newsletters found]">>

----------------------------------------------------------------------------
(* preload_context_once, agent.py:125-151 *)

\* "except Exception" of preload_context_once, agent.py:129, 134, 140
PreloadCatches(exc) == IsInstance(exc, "Exception")

Preamble == <<"<priming instructions>\n\n">>
HeadingGuidelines == "[EDITORIAL GUIDELINES]\n"
HeadingBriefing   == "[BRIEFING]\n"
HeadingPast       == "[PAST NEWSLETTERS]\n"

\* agent.py:143-150
AssembleContext(g, b, p) ==
    Preamble \o <<HeadingGuidelines>> \o g \o <<"\n\n">>
             \o <<HeadingBriefing>> \o b \o <<"\n\n">>
             \o <<HeadingPast>> \o p

----------------------------------------------------------------------------
(* The prompt, agent.py:164-169 *)

Whitespace == {" ", "\t", "\n"}

RECURSIVE LStrip(_)
LStrip(s) == IF s # <<>> /\ Head(s) \in Whitespace THEN LStrip(Tail(s)) ELSE s

RECURSIVE RStrip(_)
RStrip(s) ==
    IF s # <<>> /\ s[Len(s)] \in Whitespace THEN RStrip(SubSeq(s, 1, Len(s) - 1)) ELSE s

\* str.strip()
Strip(s) == RStrip(LStrip(s))

LowerChar(c) ==
    CASE c = "E" -> "e" [] c = "X" -> "x" [] c = "I" -> "i" [] c = "T" -> "t"
      [] c = "Q" -> "q" [] c = "U" -> "u" [] c = "H" -> "h" [] OTHER -> c

\* str.lower()
Lower(s) == [i \in 1..Len(s) |-> LowerChar(s[i])]

\* the exit test without .lower()
IsExitCaseSensitive(u) ==
    u \in {<<"e", "x", "i", "t">>, <<"q", "u", "i", "t">>}

\* user_input.lower() in {"exit", "quit"}, agent.py:165
IsExitCommand(u) ==
    Lower(u) \in {<<"e", "x", "i", "t">>, <<"q", "u", "i", "t">>}

\* the lines a user may type
UserInputs ==
    { <<"e", "x", "i", "t">>,
      <<" ", "Q", "U", "I", "T", " ">>,
      <<" ", "\t">>,
      <<" ", "H", "i", " ">>,
      <<"e", "x", "i", "t", "s">> }

----------------------------------------------------------------------------
(* The process *)

InitWith(filesystems) ==
    /\ fs \in filesystems
    /\ pc = "import"
    /\ MARKDOWN_ROOT = None
    /\ guidelines = None
    /\ briefing = None
    /\ past_joined = None
    /\ caller = "none"
    /\ md_paths = <<>>
    /\ idx = 0
    /\ texts = <<>>
    /\ ops = <<>>
    /\ lastRead = NoRead
    /\ lastColl = NoColl
    /\ initial_context = None
    /\ sent = <<>>
    /\ inputs = <<>>
    /\ toolCalls = 0
    /\ crash = NoException

Init == InitWith(FileSystems(DriverNames, DriverContents, MaxDriverFiles))

InitLoader == InitWith(FileSystems(Names, Contents, MaxFiles))

preloadLocals == <<guidelines, briefing, past_joined>>
readerLocals  == <<caller, md_paths, idx, texts>>
driverVars    == <<initial_context, sent, inputs, toolCalls>>

\* module import: MARKDOWN_ROOT = _resolve_markdown_root(), agent.py:31
ImportModule ==
    /\ pc = "import"
    /\ MARKDOWN_ROOT' = _resolve_markdown_root(fs)
    /\ pc' = "preload_guidelines"
    /\ UNCHANGED <<fs, preloadLocals, readerLocals, ops, lastRead, lastColl,
                   driverVars, crash>>

\* agent.py:127-130
PreloadGuidelines ==
    /\ pc = "preload_guidelines"
    /\ LET r == _safe_read_text_file(fs, EDITORIAL_GUIDELINES_PATH)
       IN  /\ lastRead' = r
           /\ ops' = r.ops
           /\ IF ~r.raised
              THEN /\ guidelines' = r.value
                   /\ pc' = "preload_briefing"
                   /\ crash' = crash
              ELSE IF PreloadCatches(r.exc)
              THEN /\ guidelines' =
                         <<"[Could not load Editorial Guidelines: ">> \o r.exc.msg \o <<"]">>
                   /\ pc' = "preload_briefing"
                   /\ crash' = crash
              ELSE /\ guidelines' = guidelines
                   /\ pc' = "crashed"
                   /\ crash' = r.exc
    /\ UNCHANGED <<fs, MARKDOWN_ROOT, briefing, past_joined, readerLocals, lastColl,
                   driverVars>>

\* agent.py:132-135
PreloadBriefing ==
    /\ pc = "preload_briefing"
    /\ LET r == _safe_read_text_file(fs, BRIEFING_PATH)
       IN  /\ lastRead' = r
           /\ ops' = ops \o r.ops
           /\ IF ~r.raised
              THEN /\ briefing' = r.value
                   /\ pc' = "preload_past"
                   /\ crash' = crash
              ELSE IF PreloadCatches(r.exc)
              THEN /\ briefing' = <<"[Could not load Briefing: ">> \o r.exc.msg \o <<"]">>
                   /\ pc' = "preload_past"
                   /\ crash' = crash
              ELSE /\ briefing' = briefing
                   /\ pc' = "crashed"
                   /\ crash' = r.exc
    /\ UNCHANGED <<fs, MARKDOWN_ROOT, guidelines, past_joined, readerLocals, lastColl,
                   driverVars>>

\* _load_past_newsletters_texts hands `result` to its caller `who`:
\* preload_context_once (agent.py:137-141) joins it or catches the exception,
\* the load_past_newsletters tool (agent.py:83-86) joins it or lets the
\* exception pass to the agent executor, which re-raises it into __main__.
CollectionEnds(who, result) ==
    /\ lastColl' = result
    /\ IF who = "preload"
       THEN IF ~result.raised
            THEN /\ past_joined' = JoinedOrNone(result.value)
                 /\ pc' = "assemble"
                 /\ crash' = crash
            ELSE IF PreloadCatches(result.exc)
            THEN /\ past_joined' =
                       <<"[Could not load past newsletters: ">> \o result.exc.msg \o <<"]">>
                 /\ pc' = "assemble"
                 /\ crash' = crash
            ELSE /\ past_joined' = past_joined
                 /\ pc' = "crashed"
                 /\ crash' = result.exc
       ELSE /\ past_joined' = past_joined
            /\ IF ~result.raised
               THEN pc' = "agent" /\ crash' = crash
               ELSE pc' = "crashed" /\ crash' = result.exc

\* _load_past_newsletters_texts up to the loop, agent.py:54-59
CollectionBegins(who, opsBefore) ==
    LET d == PAST_NEWSLETTERS_DIR
    IN  /\ caller' = who
        /\ idx' = 0
        /\ texts' = <<>>
        /\ IF DirectoryMissing(fs, d)
           THEN /\ ops' = opsBefore \o <<Op("isdir", d)>>
                /\ md_paths' = <<>>
                /\ CollectionEnds(who, CollRaised(
                       [type |-> "FileNotFoundError",
                        msg  |-> <<"Directory not found: ">> \o d]))
           ELSE /\ ops' = opsBefore \o <<Op("isdir", d), Op("glob", d)>>
                /\ md_paths' = Sorted(Glob(fs, d))
                /\ IF md_paths' = <<>>
                   THEN CollectionEnds(who, CollReturned(<<>>))
                   ELSE /\ pc' = "reading"
                        /\ UNCHANGED <<past_joined, lastColl, crash>>

\* agent.py:137-138
PreloadPast ==
    /\ pc = "preload_past"
    /\ CollectionBegins("preload", ops)
    /\ UNCHANGED <<fs, MARKDOWN_ROOT, guidelines, briefing, lastRead, driverVars>>

\* one iteration of the loop of _load_past_newsletters_texts, agent.py:60-65,
\* and after the last one the return of agent.py:66
ReadNext ==
    /\ pc = "reading"
    /\ LET p == md_paths[idx + 1]
           r == _safe_read_text_file(fs, p)
           caught == r.raised /\ LoopCatches(r.exc)
           texts2 == IF ~r.raised THEN Append(texts, Block(p, r.value))
                     ELSE IF caught THEN Append(texts, Block(p, ErrorBody(r.exc)))
                     ELSE texts
       IN  /\ lastRead' = r
           /\ ops' = ops \o r.ops
           /\ idx' = idx + 1
           /\ texts' = texts2
           /\ IF r.raised /\ ~caught
              THEN CollectionEnds(caller, CollRaised(r.exc))
              ELSE IF idx + 1 = Len(md_paths)
              THEN CollectionEnds(caller, CollReturned(texts2))
              ELSE /\ pc' = "reading"
                   /\ UNCHANGED <<past_joined, lastColl, crash>>
    /\ UNCHANGED <<fs, MARKDOWN_ROOT, guidelines, briefing, caller, md_paths, driverVars>>

\* agent.py:143-151 and 156
Assemble ==
    /\ pc = "assemble"
    /\ initial_context' = AssembleContext(guidelines, briefing, past_joined)
    /\ pc' = "prime"
    /\ UNCHANGED <<fs, MARKDOWN_ROOT, preloadLocals, readerLocals, ops, lastRead,
                   lastColl, sent, inputs, toolCalls, crash>>


\* agent_executor.invoke({"input": initial_context}), agent.py:157-159
PrimeAgent ==
    /\ pc = "prime"
    /\ sent' = Append(sent, initial_context)
    /\ toolCalls' = 0
    /\ pc' = "agent"
    /\ UNCHANGED <<fs, MARKDOWN_ROOT, preloadLocals, readerLocals, ops, lastRead,
                   lastColl, initial_context, inputs, crash>>

\* The locals of _load_past_newsletters_texts are gone once it has returned
\* and another call begins; lastRead, lastColl and ops describe the latest
\* call of the current invoke only.
ReaderLocalsDropped ==
    /\ caller' = "none"
    /\ md_paths' = <<>>
    /\ idx' = 0
    /\ texts' = <<>>

\* "except KeyboardInterrupt" is the only handler of __main__, agent.py:173
MainCatches(exc) == IsInstance(exc, "KeyboardInterrupt")

\* During an invoke the agent calls load_editorial_guidelines or load_briefing
\* (agent.py:70-79).  The tool does not catch; the agent executor built at
\* agent.py:121 sets no tool error handler, so it re-raises the exception out
\* of invoke (agent.py:157 and 170), where nothing but KeyboardInterrupt is
\* caught.
ToolLoadsDocument(p) ==
    /\ pc = "agent"
    /\ toolCalls < MaxToolCalls
    /\ toolCalls' = toolCalls + 1
    /\ LET r == _safe_read_text_file(fs, p)
       IN  /\ lastRead' = r
           /\ ops' = r.ops
           /\ IF r.raised /\ ~MainCatches(r.exc)
              THEN pc' = "crashed" /\ crash' = r.exc
              ELSE pc' = "agent" /\ crash' = crash
    /\ lastColl' = NoColl
    /\ ReaderLocalsDropped
    /\ UNCHANGED <<fs, MARKDOWN_ROOT, preloadLocals, initial_context, sent, inputs>>

\* agent.py:70-73
ToolLoadEditorialGuidelines == ToolLoadsDocument(EDITORIAL_GUIDELINES_PATH)

\* agent.py:76-79
ToolLoadBriefing == ToolLoadsDocument(BRIEFING_PATH)

\* the agent calls load_past_newsletters, agent.py:82-86
ToolLoadPastNewsletters ==
    /\ pc = "agent"
    /\ toolCalls < MaxToolCalls
    /\ toolCalls' = toolCalls + 1
    /\ CollectionBegins("tool", <<>>)
    /\ lastRead' = NoRead
    /\ UNCHANGED <<fs, MARKDOWN_ROOT, guidelines, briefing, initial_context, sent, inputs>>

\* invoke returns the agent's answer; the loop prompts, agent.py:161-164 and 170-172
AgentReturns ==
    /\ pc = "agent"
    /\ pc' = "prompt"
    /\ ops' = <<>>
    /\ lastRead' = NoRead
    /\ lastColl' = NoColl
    /\ ReaderLocalsDropped
    /\ UNCHANGED <<fs, MARKDOWN_ROOT, preloadLocals, driverVars, crash>>

\* one pass of the loop for the line `line`, agent.py:164-170
ReadInput(line) ==
    /\ pc = "prompt"
    /\ Len(inputs) < MaxTurns
    /\ inputs' = Append(inputs, line)
    /\ LET user_input == Strip(line)
       IN  IF IsExitCommand(user_input)
           THEN pc' = "done" /\ UNCHANGED <<sent, toolCalls>>
           ELSE IF user_input = <<>>
           THEN pc' = "prompt" /\ UNCHANGED <<sent, toolCalls>>
           ELSE /\ sent' = Append(sent, user_input)
                /\ toolCalls' = 0
                /\ pc' = "agent"
    /\ UNCHANGED <<fs, MARKDOWN_ROOT, preloadLocals, readerLocals, ops, lastRead,
                   lastColl, initial_context, crash>>

\* Ctrl-C at the prompt, agent.py:173-174
KeyboardInterruptAtPrompt ==
    /\ pc = "prompt"
    /\ pc' = "done"
    /\ UNCHANGED <<fs, MARKDOWN_ROOT, preloadLocals, readerLocals, ops, lastRead,
                   lastColl, driverVars, crash>>

\* import and preload_context_once
LoaderNext ==
    \/ ImportModule
    \/ PreloadGuidelines
    \/ PreloadBriefing
    \/ PreloadPast
    \/ ReadNext
    \/ Assemble

\* the whole program
Next ==
    \/ ImportModule
    \/ PreloadGuidelines
    \/ PreloadBriefing
    \/ PreloadPast
    \/ ReadNext
    \/ Assemble
    \/ PrimeAgent
    \/ ToolLoadEditorialGuidelines
    \/ ToolLoadBriefing
    \/ ToolLoadPastNewsletters
    \/ AgentReturns
    \/ \E line \in UserInputs : ReadInput(line)
    \/ KeyboardInterruptAtPrompt

Spec == Init /\ [][Next]_vars

LoaderSpec == InitLoader /\ [][LoaderNext]_vars

----------------------------------------------------------------------------
(* Vocabulary of the properties *)

\* the position of the first occurrence of token t in text s (0 when absent)
FirstIndex(s, t) ==
    IF \E i \in 1..Len(s) : s[i] = t
    THEN CHOOSE i \in 1..Len(s) : s[i] = t /\ \A j \in 1..(i - 1) : s[j] # t
    ELSE 0

\* text s opens with token `opener` and closes with "]"
Bracketed(s, opener) == Len(s) >= 2 /\ s[1] = opener /\ s[Len(s)] = "]"

PrimaryRoot   == <<"<PROJECT_ROOT>", "/", "markdown-files">>
AlternateRoot == <<"<PROJECT_ROOT>", "/", "mardown-files">>

\* the entries of past_newsletter/ that the pattern *.md selects
MatchedNames == {n \in DOMAIN fs.entries : MatchesStarMd(n)}

\* the heading line of the block of the entry named n
HeadingOf(n) == <<"## ">> \o n \o <<"\n">>

\* block b is the heading of n followed by `body`
IsBlockOf(b, n, body) == b = HeadingOf(n) \o body

\* block b is the heading of n followed by an inline error annotation
IsErrorBlockOf(b, n) ==
    /\ Len(b) > Len(HeadingOf(n)) + 1
    /\ SubSeq(b, 1, Len(HeadingOf(n))) = HeadingOf(n)
    /\ b[Len(HeadingOf(n)) + 1] = "[Error reading file: "
    /\ b[Len(b)] = "]"

\* the name in the heading of block b: the tokens between "## " and the first "\n"
NameInHeading(b) == SubSeq(b, 2, FirstIndex(b, "\n") - 1)

\* the collection reader has run to its end on an existing directory
CollectionDoneOnDirectory ==
    /\ lastColl.done
    /\ MARKDOWN_ROOT # None
    /\ IsDir(fs, PAST_NEWSLETTERS_DIR)

----------------------------------------------------------------------------
(* C1 *)

\* C1: preload_context_once never raises, whatever the filesystem holds: it
\* returns one text with the headings EDITORIAL GUIDELINES, BRIEFING and PAST
\* NEWSLETTERS in that order, and every section whose load failed (file or
\* directory missing or unreadable) is a bracketed placeholder: the message
\* of the failure, or for a directory that cannot be listed the message that
\* no newsletters were found.
PreloadNeverFails ==
    /\ pc # "crashed"
    /\ crash = NoException
    /\ pc = "prime" =>
          LET c  == initial_context
              iG == FirstIndex(c, HeadingGuidelines)
              iB == FirstIndex(c, HeadingBriefing)
              iP == FirstIndex(c, HeadingPast)
              secG == SubSeq(c, iG + 1, iB - 2)
              secB == SubSeq(c, iB + 1, iP - 2)
              secP == SubSeq(c, iP + 1, Len(c))
          IN  /\ 0 < iG /\ iG < iB /\ iB < iP
              /\ Node(fs, EDITORIAL_GUIDELINES_PATH).kind # "file" =>
                    Bracketed(secG, "[Could not load Editorial Guidelines: ")
              /\ Node(fs, BRIEFING_PATH).kind # "file" =>
                    Bracketed(secB, "[Could not load Briefing: ")
              /\ ~IsDir(fs, PAST_NEWSLETTERS_DIR) =>
                    Bracketed(secP, "[Could not load past newsletters: ")
              /\ Node(fs, PAST_NEWSLETTERS_DIR).kind = "dir_noperm" =>
                    secP = <<"[No past newsletters found]">>

\* preload_context_once has returned with all three sources missing
AllSourcesMissingPrimed ==
    /\ pc = "prime"
    /\ ~Exists(fs, EDITORIAL_GUIDELINES_PATH)
    /\ ~Exists(fs, BRIEFING_PATH)
    /\ ~Exists(fs, PAST_NEWSLETTERS_DIR)
    /\ initial_context # None

----------------------------------------------------------------------------
(* C2 *)

\* C2: in _load_past_newsletters_texts a read failure on a matched file does
\* not abort the batch: on an existing directory no exception escapes, there
\* is one block per matched file, the block of every file that cannot be read
\* is its heading plus an inline error annotation, and the block of every
\* readable file is its heading plus its content.
ReadFailureIsolated ==
    CollectionDoneOnDirectory =>
        /\ ~lastColl.raised
        /\ Len(lastColl.value) = Cardinality(MatchedNames)
        /\ \A n \in MatchedNames :
              \E i \in 1..Len(lastColl.value) :
                 IF fs.entries[n].kind = "file"
                 THEN IsBlockOf(lastColl.value[i], n, fs.entries[n].content)
                 ELSE IsErrorBlockOf(lastColl.value[i], n)

\* the reader has finished a directory of three matched files of which the
\* middle one cannot be opened and the other two are readable
OneUnreadableAmongReadable ==
    /\ CollectionDoneOnDirectory
    /\ MatchedNames = {NameDated, NameUpperB, NameA}
    /\ fs.entries[NameDated].kind = "file"
    /\ fs.entries[NameUpperB].kind = "noperm"
    /\ fs.entries[NameA].kind = "file"
    /\ Len(lastColl.value) = 3

----------------------------------------------------------------------------
(* C3 *)

\* the regular files of past_newsletter/ that the pattern *.md selects
MarkdownFiles == {n \in MatchedNames : fs.entries[n].kind \in {"file", "noperm"}}

\* the blocks are in ascending order of the names in their headings
BlocksAscending(blocks) ==
    \A i, j \in 1..Len(blocks) :
        i < j => StrLess(NameInHeading(blocks[i]), NameInHeading(blocks[j]))

\* C3 as stated: for every existing directory with N markdown files the
\* reader returns exactly N blocks in ascending filename order, and each block
\* is "## <base filename>", a newline and the content of the file.
EveryBlockIsHeadingPlusContent ==
    CollectionDoneOnDirectory =>
        /\ ~lastColl.raised
        /\ Len(lastColl.value) = Cardinality(MarkdownFiles)
        /\ BlocksAscending(lastColl.value)
        /\ \A n \in MarkdownFiles :
              \E i \in 1..Len(lastColl.value) :
                 IsBlockOf(lastColl.value[i], n, fs.entries[n].content)

\* C3 as amended: for every existing directory the reader returns exactly one
\* block per path matched by *.md, in ascending filename order, and the block
\* of each file whose read succeeds is "## <base filename>", a newline and
\* the content of the file; a lone readable 2024-01-01.md holding Hello gives
\* the single block "## 2024-01-01.md\nHello".
ReadableBlocksAreHeadingPlusContent ==
    CollectionDoneOnDirectory =>
        /\ ~lastColl.raised
        /\ Len(lastColl.value) = Cardinality(MatchedNames)
        /\ BlocksAscending(lastColl.value)
        /\ {NameInHeading(lastColl.value[i]) : i \in 1..Len(lastColl.value)} = MatchedNames
        /\ \A i \in 1..Len(lastColl.value) :
              LET n == NameInHeading(lastColl.value[i])
              IN  fs.entries[n].kind = "file" =>
                     lastColl.value[i] = <<"## ">> \o n \o <<"\n">> \o fs.entries[n].content
        /\ fs.entries = (NameDated :> [kind |-> "file", content |-> <<"Hello">>]) =>
              lastColl.value =
                 << <<"## ", "2", "0", "2", "4", "-", "0", "1", "-", "0", "1",
                      ".", "m", "d", "\n", "Hello">> >>

\* the reader has returned two blocks for two readable markdown files whose
\* names differ in case
TwoReadableFilesRead ==
    /\ CollectionDoneOnDirectory
    /\ Len(lastColl.value) = 2
    /\ \A n \in MatchedNames : fs.entries[n].kind = "file"
    /\ NameInHeading(lastColl.value[1]) = NameUpperB
    /\ NameInHeading(lastColl.value[2]) = NameA

----------------------------------------------------------------------------
(* C4 *)

\* C4: the collection reader tells an empty directory from an absent one: an
\* existing directory in which nothing matches *.md gives the empty sequence
\* and no exception, an absent directory gives FileNotFoundError and no value.
EmptyIsNotAbsent ==
    (lastColl.done /\ MARKDOWN_ROOT # None) =>
        /\ (IsDir(fs, PAST_NEWSLETTERS_DIR) /\ MatchedNames = {}) =>
              (~lastColl.raised /\ lastColl.value = <<>>)
        /\ ~Exists(fs, PAST_NEWSLETTERS_DIR) =>
              /\ lastColl.raised
              /\ lastColl.exc.type = "FileNotFoundError"
              /\ lastColl.value = <<>>

\* the reader has returned for a directory that holds entries, none of them
\* matching *.md
NonMatchingDirectoryRead ==
    /\ CollectionDoneOnDirectory
    /\ DOMAIN fs.entries # {}
    /\ MatchedNames = {}
    /\ ~lastColl.raised

----------------------------------------------------------------------------
(* C5 *)

\* C5: _resolve_markdown_root returns the first of (markdown-files,
\* mardown-files) that is a directory: the primary when both are, the
\* alternate when only the alternate is, and the primary when neither is.
ResolverPicksFirstDirectory ==
    MARKDOWN_ROOT # None =>
        MARKDOWN_ROOT =
            IF fs.roots["markdown-files"] = "dir" THEN PrimaryRoot
            ELSE IF fs.roots["mardown-files"] = "dir" THEN AlternateRoot
            ELSE PrimaryRoot

\* the resolver has run with neither candidate a directory
NeitherCandidateResolved ==
    /\ MARKDOWN_ROOT = PrimaryRoot
    /\ fs.roots["markdown-files"] # "dir"
    /\ fs.roots["mardown-files"] # "dir"

----------------------------------------------------------------------------
(* C6 *)

\* _safe_read_text_file has been called, and on a missing path it has raised
\* FileNotFoundError naming the path without attempting to open it
MissingPathRefusedBeforeOpen ==
    (lastRead.path # <<>> /\ ~Exists(fs, lastRead.path)) =>
        /\ lastRead.raised
        /\ lastRead.exc = [type |-> "FileNotFoundError",
                           msg  |-> <<"File not found: ">> \o lastRead.path]
        /\ lastRead.ops = <<Op("exists", lastRead.path)>>

\* C6 as stated: _safe_read_text_file tests existence before it reads; a path
\* missing at the test gives FileNotFoundError naming the path and no open is
\* attempted; a path that exists gives the full text of the file.
ExistingPathYieldsText ==
    /\ MissingPathRefusedBeforeOpen
    /\ (lastRead.path # <<>> /\ Exists(fs, lastRead.path)) =>
          /\ ~lastRead.raised
          /\ lastRead.value = Node(fs, lastRead.path).content

\* C6 as amended: _safe_read_text_file tests existence before it reads; a
\* path missing at the test gives FileNotFoundError naming the path and no
\* open is attempted; a path that exists is opened, and the call returns the
\* full text when the read succeeds and raises the error of the read when it
\* does not.
ExistingPathYieldsTextOrReadError ==
    /\ MissingPathRefusedBeforeOpen
    /\ (lastRead.path # <<>> /\ Exists(fs, lastRead.path)) =>
          /\ lastRead.ops = <<Op("exists", lastRead.path), Op("open", lastRead.path)>>
          /\ IF Node(fs, lastRead.path).kind = "file"
             THEN /\ ~lastRead.raised
                  /\ lastRead.value = Node(fs, lastRead.path).content
             ELSE /\ lastRead.raised
                  /\ lastRead.exc.type = "PermissionError"

\* the single-document reader has refused a missing path
MissingPathRead ==
    /\ lastRead.path # <<>>
    /\ ~Exists(fs, lastRead.path)
    /\ lastRead.raised

----------------------------------------------------------------------------
(* C7 *)

\* C7: no failure to load a markdown file terminates the process, in any run
\* of the main driver in which the agent may call the three loader tools.
NoLoadFailureTerminatesProcess ==
    ~(pc = "crashed" /\ crash.type \in {"FileNotFoundError", "PermissionError"})

----------------------------------------------------------------------------
(* C8 *)

\* the matched paths handled so far whose file does not exist
VanishedPaths == {i \in 1..idx : ~Exists(fs, md_paths[i])}

\* block b carries the annotation of a FileNotFoundError
IsNotFoundAnnotation(b) ==
    \E i \in 1..Len(b) : b[i] = "[Error reading file: " /\ i < Len(b)
                         /\ b[i + 1] = "File not found: "

\* C8 as stated: NotFound is never caught inside the readers: every NotFound
\* raised while the single-document reader or the collection reader runs
\* leaves that reader as an exception, a matched file that is gone when it is
\* read included, and only ReadFailure becomes an inline annotation.
NotFoundNeverCaughtInReaders ==
    /\ (lastRead.path # <<>> /\ ~Exists(fs, lastRead.path)) =>
          (lastRead.raised /\ lastRead.exc.type = "FileNotFoundError")
    /\ (lastColl.done /\ (~IsDir(fs, PAST_NEWSLETTERS_DIR) \/ VanishedPaths # {})) =>
          (lastColl.raised /\ lastColl.exc.type = "FileNotFoundError")
    /\ \A i \in 1..Len(texts) : ~IsNotFoundAnnotation(texts[i])

\* C8 as amended: NotFound raised by the single-document reader leaves it as
\* an exception, and NotFound raised by the directory test of the collection
\* reader leaves the collection reader as an exception; but the per-file loop
\* of the collection reader catches every exception of the single-document
\* reader, NotFound as well as ReadFailure: a matched file that is gone when
\* it is read gets a block with the annotation of its NotFound, and the
\* collection reader returns.
NotFoundCaughtOnlyInFileLoop ==
    /\ (lastRead.path # <<>> /\ ~Exists(fs, lastRead.path)) =>
          (lastRead.raised /\ lastRead.exc.type = "FileNotFoundError")
    /\ (lastColl.done /\ ~IsDir(fs, PAST_NEWSLETTERS_DIR)) =>
          (lastColl.raised /\ lastColl.exc.type = "FileNotFoundError")
    /\ CollectionDoneOnDirectory => ~lastColl.raised
    /\ pc # "crashed"
    /\ \A i \in 1..idx :
          /\ Len(texts) >= i
          /\ ~Exists(fs, md_paths[i]) =>
                texts[i] = HeadingOf(SubSeq(md_paths[i], 7, Len(md_paths[i])))
                           \o <<"[Error reading file: ", "File not found: ">>
                           \o md_paths[i] \o <<"]">>
          /\ Node(fs, md_paths[i]).kind = "noperm" =>
                /\ IsErrorBlockOf(texts[i], SubSeq(md_paths[i], 7, Len(md_paths[i])))
                /\ ~IsNotFoundAnnotation(texts[i])

\* the collection reader has returned although a matched file was gone when
\* it was read
VanishedFileAnnotated ==
    /\ CollectionDoneOnDirectory
    /\ VanishedPaths # {}
    /\ ~lastColl.raised
    /\ \E i \in 1..Len(lastColl.value) : IsNotFoundAnnotation(lastColl.value[i])

----------------------------------------------------------------------------
(* C9 *)

\* which of the three loads a filesystem call belongs to
Stage(op) ==
    IF op.path = EDITORIAL_GUIDELINES_PATH THEN 1
    ELSE IF op.path = BRIEFING_PATH THEN 2
    ELSE 3

\* the positions in ops of the calls `call` on path p
Calls(call, p) == {i \in 1..Len(ops) : ops[i] = Op(call, p)}

\* the paths of the per-file existence tests, in the order they were made
FileTests ==
    LET IsFileTest(op) == op.call = "exists" /\ Stage(op) = 3
        sel == SelectSeq(ops, IsFileTest)
    IN  [i \in 1..Len(sel) |-> sel[i].path]

\* C9: preload_context_once loads in one fixed order: the editorial
\* guidelines, then the briefing, then the scan of the newsletter directory
\* and its files in ascending filename order; a failed load neither skips nor
\* reorders a later one, so all three loads are always attempted.
LoadsInFixedOrder ==
    MARKDOWN_ROOT # None =>
        /\ \A i, j \in 1..Len(ops) : i < j => Stage(ops[i]) <= Stage(ops[j])
        /\ pc \in {"assemble", "prime"} =>
              /\ Cardinality(Calls("exists", EDITORIAL_GUIDELINES_PATH)) = 1
              /\ Cardinality(Calls("exists", BRIEFING_PATH)) = 1
              /\ Cardinality(Calls("isdir", PAST_NEWSLETTERS_DIR)) = 1
              /\ IsDir(fs, PAST_NEWSLETTERS_DIR) =>
                    /\ Cardinality(Calls("glob", PAST_NEWSLETTERS_DIR)) = 1
                    /\ \A g \in Calls("glob", PAST_NEWSLETTERS_DIR) :
                          /\ \A d \in Calls("isdir", PAST_NEWSLETTERS_DIR) : d < g
                          /\ \A i \in 1..Len(ops) :
                                (Stage(ops[i]) = 3 /\ ops[i].call \in {"exists", "open"})
                                   => g < i
                    /\ Len(FileTests) = Cardinality(MatchedNames)
                    /\ {FileTests[i] : i \in 1..Len(FileTests)} =
                          {PathJoin(PAST_NEWSLETTERS_DIR, n) : n \in MatchedNames}
                    /\ \A i, j \in 1..Len(FileTests) :
                          i < j => StrLess(Basename(FileTests[i]), Basename(FileTests[j]))

\* preload_context_once has gone through all three loads although the first
\* two failed, and has read three files of the directory
LaterLoadsRunAfterFailures ==
    /\ pc = "assemble"
    /\ ~Exists(fs, EDITORIAL_GUIDELINES_PATH)
    /\ Node(fs, BRIEFING_PATH).kind = "noperm"
    /\ Len(FileTests) = 3

----------------------------------------------------------------------------
(* C10 *)

\* the lines of UserInputs that say exit or quit once stripped, in any case
ExitLines == { <<"e", "x", "i", "t">>, <<" ", "Q", "U", "I", "T", " ">> }

\* the lines of UserInputs that are empty once stripped
BlankLines == { <<" ", "\t">> }

\* what the agent is to receive for a line that is neither: the line stripped
Stripped(line) ==
    CASE line = <<" ", "H", "i", " ">>      -> <<"H", "i">>
      [] line = <<"e", "x", "i", "t", "s">> -> <<"e", "x", "i", "t", "s">>
      [] OTHER                              -> line

\* the lines among `lines` the agent is to be invoked for, stripped, in order
RECURSIVE Requests(_)
Requests(lines) ==
    IF lines = <<>> THEN <<>>
    ELSE IF Head(lines) \in ExitLines \cup BlankLines THEN Requests(Tail(lines))
    ELSE <<Stripped(Head(lines))>> \o Requests(Tail(lines))

\* C10: the priming context goes to the agent exactly once, before the first
\* line is read, and never again; after it the agent is invoked exactly once
\* for each line that is non-empty after stripping and is not exit or quit in
\* any case, never for an empty line, and the loop ends at the first exit or
\* quit without an invoke for it.
PrimedOnceThenOneInvokePerRequest ==
    /\ sent = <<>> => inputs = <<>>
    /\ pc \in {"prompt", "done"} => sent # <<>>
    /\ sent # <<>> =>
          /\ sent[1] = initial_context
          /\ initial_context # None
          /\ Tail(sent) = Requests(inputs)
          /\ \A i \in 2..Len(sent) : sent[i] # initial_context
    /\ \A i \in 1..(Len(inputs) - 1) : inputs[i] \notin ExitLines
    /\ (inputs # <<>> /\ inputs[Len(inputs)] \in ExitLines) => pc = "done"

\* the loop has ended at QUIT typed in capitals between blanks, after one
\* request
LoopEndedAtQuit ==
    /\ pc = "done"
    /\ Len(inputs) = 2
    /\ inputs[1] = <<" ", "H", "i", " ">>
    /\ inputs[2] = <<" ", "Q", "U", "I", "T", " ">>
    /\ sent = <<initial_context, <<"H", "i">> >>

====
